---- MODULE Spec2Model ----
(***************************************************************************)
(* SolWatcher (src/main.py): the price series kept in dataframe.json, its  *)
(* bootstrap and refresh on every start of the application, the cached     *)
(* exchange rates, and the per-window price-change statistics.             *)
(*                                                                         *)
(* Time is counted in whole seconds of the host's local wall clock, from   *)
(* sol_launch.  Prices and rates are integers and every float operation is *)
(* exact rational arithmetic.  One behaviour is a sequence of starts of    *)
(* the application on one host: the two files survive a start, everything  *)
(* in memory is rebuilt by SolWatcher.__init__.                            *)
(***************************************************************************)
EXTENDS Integers, Sequences, FiniteSets, TLC

(***************************************************************************)
(* Program constants                                                       *)
(***************************************************************************)
sol_launch == 0

SecondsPerMinute == 60

SecondsPerDay == 86400

SecondsPerHour == 3600

MicrosPerSecond == 1000000

MinDiff == 5

AllTimeDays == 400

DisplayFiat == "CZK"

(***************************************************************************)
(* Bounds of the model                                                     *)
(***************************************************************************)
\* starts of the application in one behaviour
MaxStartups == 2

\* points of an ordinary API answer: 1..MaxPoints
MaxPoints == 2

\* days between sol_launch and the first start: less and more than the year
\* of the 1-year window and the 400 days of the all-time change
FirstRunDays == {40, 500}

\* seconds between the end of one start and the next start: less than the 5
\* minutes of the threshold, between 5 and 6 minutes, 6 minutes, and between
\* 6 and 7 minutes
Elapsed == {200, 330, 360, 385}

\* seconds the clock advances between the readings of one bootstrap
BootTicks == {0}

\* seconds the clock advances between the two readings of one refresh
Ticks == {0}

\* prices the API may report; every point of one answer has the same price
Prices == {0, 1, 2}

\* points of an answer to the second request of a bootstrap that has one
\* point for each of the 30 days of its window
DailyPoints == 30

\* the prices of the three answers of one bootstrap
TierPrices == {<<1, 2, 3>>, <<3, 2, 1>>, <<0, 1, 2>>, <<1, 0, 2>>}

\* offset of the host's local clock from UTC, in seconds
UtcOffsets == {0}

\* the offsets of hosts west of, at and east of UTC: UTC-5, UTC, UTC+2
ZoneOffsets == {0 - 18000, 0, 7200}

\* points of an answer to a download applied on its own: 1..MaxStampPoints
MaxStampPoints == 7

\* the start of its window, and the seconds of it: 6 and 7 minutes, a day,
\* 30 days
StampStarts == {0, 100}

StampSpans == {360, 420, 86400, 2592000}

\* rows of the series and of a batch handed to add_new_records on its own
MaxSeries == 1

MaxBatch == 2

\* the timestamps and prices of those rows
MergeTimes == {1, 2}

MergePrices == {1, 2}

(***************************************************************************)
(* Values                                                                  *)
(***************************************************************************)
RECURSIVE GCD(_, _)
GCD(a, b) == IF b = 0 THEN a ELSE GCD(b, a % b)

Abs(a) == IF a < 0 THEN 0 - a ELSE a

\* a float, as the exact rational num/den in lowest terms, den > 0
Rat(num, den) ==
    LET g == GCD(Abs(num), Abs(den))
        s == IF den < 0 THEN 0 - 1 ELSE 1
    IN  [num |-> (s * num) \div g, den |-> (s * den) \div g]

Float(n) == [num |-> n, den |-> 1]

\* the rates the exchange-rate API may answer with
RateSnapshots ==
    { [c \in {"CZK", "EUR"} |-> IF c = "CZK" THEN 3 ELSE 1],
      [c \in {"EUR"} |-> 1] }

NoRates == [c \in {} |-> 0]

\* an answer of the price API: n points of one price; n = 0 stands for a
\* transport error or an empty payload, both of which raise
Failure == [n |-> 0, price |-> 0]

Responses(span) == [n : 1..MaxPoints, price : Prices] \cup {Failure}

\* an answer with one point more than the window has seconds
DenseResponses(span) == {[n |-> span + 1, price |-> 1]}

\* the answers to the request of a refresh over span seconds
Answers(dense, span) ==
    IF dense THEN DenseResponses(span) ELSE Responses(span)

\* the three answers of one bootstrap: the same number of points in each,
\* or one point a day in the second (its first stamp is then the stamp of
\* the point of the first), or a failure in the first, second or third
BootstrapResponses ==
    { <<[n |-> k, price |-> p[1]], [n |-> k, price |-> p[2]],
        [n |-> k, price |-> p[3]]>> : k \in 1..MaxPoints, p \in TierPrices }
    \cup { <<[n |-> 1, price |-> 1], [n |-> DailyPoints, price |-> 2],
             [n |-> 1, price |-> 3]>> }
    \cup { <<Failure, Failure, Failure>>,
           <<[n |-> 1, price |-> 1], Failure, Failure>>,
           <<[n |-> 1, price |-> 1], [n |-> 1, price |-> 1], Failure>> }

(***************************************************************************)
(* download_hist_data                                                      *)
(***************************************************************************)
\* timedelta / int: rounds to the nearest microsecond, ties to even
RoundHalfEven(a, b) ==
    LET q == a \div b
        r == a % b
    IN  IF 2 * r < b THEN q
        ELSE IF 2 * r > b THEN q + 1
        ELSE IF q % 2 = 0 THEN q ELSE q + 1

\* delta = (time_e - time_s) / n_records, as seconds and microseconds
Delta(time_s, time_e, n_records) ==
    LET span == time_e - time_s
    IN  [sec |-> span \div n_records,
         us  |-> RoundHalfEven((span % n_records) * MicrosPerSecond, n_records)]

\* (time_s + i * delta).replace(microsecond=0)
Timestamp(time_s, delta, i) ==
    time_s + i * delta.sec + ((i * delta.us) \div MicrosPerSecond)

download_hist_data(time_s, time_e, response) ==
    LET n_records == response.n
        delta == Delta(time_s, time_e, n_records)
    IN  [prices     |-> [i \in 1..n_records |-> response.price],
         timestamps |-> [i \in 1..n_records |-> Timestamp(time_s, delta, i)]]

Request(time_s, time_e) == [from |-> time_s, to |-> time_e]

(***************************************************************************)
(* add_new_records, DataFrame, sort                                        *)
(***************************************************************************)
\* a merge that appends every new record
extend_records(prices, timestamps, prices_new, timestamps_new) ==
    [prices |-> prices \o prices_new, timestamps |-> timestamps \o timestamps_new]

InList(x, list) == \E k \in 1..Len(list) : list[k] = x

RECURSIVE AddLoop(_, _, _, _, _)
AddLoop(prices, timestamps, prices_new, timestamps_new, i) ==
    IF i > Len(timestamps_new)
    THEN [prices |-> prices, timestamps |-> timestamps]
    ELSE IF ~InList(timestamps_new[i], timestamps)
         THEN AddLoop(Append(prices, prices_new[i]),
                      Append(timestamps, timestamps_new[i]),
                      prices_new, timestamps_new, i + 1)
         ELSE AddLoop(prices, timestamps, prices_new, timestamps_new, i + 1)

\* a merge that gives a record it has already the price of the new record
overwrite_records(prices, timestamps, prices_new, timestamps_new) ==
    LET kept == AddLoop(prices, timestamps, prices_new, timestamps_new, 1)
        Last(t) == CHOOSE j \in 1..Len(timestamps_new) :
                      /\ timestamps_new[j] = t
                      /\ \A k \in (j + 1)..Len(timestamps_new) :
                            timestamps_new[k] # t
    IN  [prices |-> [k \in 1..Len(kept.timestamps) |->
                        IF InList(kept.timestamps[k], timestamps_new)
                        THEN prices_new[Last(kept.timestamps[k])]
                        ELSE kept.prices[k]],
         timestamps |-> kept.timestamps]

add_new_records(prices, timestamps, prices_new, timestamps_new) ==
    AddLoop(prices, timestamps, prices_new, timestamps_new, 1)

DataFrame(prices, timestamps) ==
    [i \in 1..Len(timestamps) |-> [price_usd |-> prices[i], time |-> timestamps[i]]]

\* a sort that leaves the rows as they are
Unsorted(frame) == frame

\* df.sort('time'): ascending by time, rows of equal time in their old order
SortRank(frame, i) ==
    Cardinality({j \in 1..Len(frame) :
                    \/ frame[j].time < frame[i].time
                    \/ frame[j].time = frame[i].time /\ j < i}) + 1

SortByTime(frame) ==
    [k \in 1..Len(frame) |->
        frame[CHOOSE i \in 1..Len(frame) : SortRank(frame, i) = k]]

\* a concat that puts the fetched rows first
ConcatFront(frame, new_frame) == new_frame \o frame

\* pl.concat([self.df, df_new])
Concat(frame, new_frame) == frame \o new_frame

\* frame['time'].max() and frame['time'].min() of a frame with rows
\* (computed by halving the rows lo..hi, to keep the recursion shallow)
RECURSIVE MaxIn(_, _, _)
MaxIn(frame, lo, hi) ==
    IF lo = hi THEN frame[lo].time
    ELSE LET mid == (lo + hi) \div 2
             l   == MaxIn(frame, lo, mid)
             r   == MaxIn(frame, mid + 1, hi)
         IN  IF l >= r THEN l ELSE r

RECURSIVE MinIn(_, _, _)
MinIn(frame, lo, hi) ==
    IF lo = hi THEN frame[lo].time
    ELSE LET mid == (lo + hi) \div 2
             l   == MinIn(frame, lo, mid)
             r   == MinIn(frame, mid + 1, hi)
         IN  IF l <= r THEN l ELSE r

MaxTime(frame) == MaxIn(frame, 1, Len(frame))

MinTime(frame) == MinIn(frame, 1, Len(frame))

(***************************************************************************)
(* State                                                                   *)
(***************************************************************************)
VARIABLES
    now,                \* the host's local clock (get_current_time)
    utc_offset,         \* local time minus UTC on this host
    pc,                 \* where AppWindow.__init__ stands
    win,                \* the next print_move_stats call of init_gui, 1..5
    startups,           \* starts of the application so far
    error,              \* the exception that ended this start, "" if none
    df_file,            \* dataframe.json
    ex_file,            \* exchanges.json
    df,                 \* self.df (<<>> while None)
    oldest_record, latest_record,
    exchange_rates,     \* self.exchange_rates, [none |-> TRUE] while None
    exchange_rates_last_update,
    change_24h, change_7d, change_30d, change_1y, change_at,
    current_usd_price,
    label_price,        \* the text of label_price: an amount and a currency
    requests,           \* price-history requests of this start, in order
    ex_requests,        \* exchange-rate requests of this start
    time_diff,          \* what get_time_diff returned in this start
    call,               \* the last print_move_stats call of this start
    trace,              \* what init_df did to the series in this start, in order
    args,               \* the arguments of a function applied on its own
    result              \* what the function returned

disk == <<df_file, ex_file>>

changes == <<change_24h, change_7d, change_30d, change_1y, change_at>>

gui == <<changes, current_usd_price, label_price, call, win>>

exchange == <<exchange_rates, exchange_rates_last_update, ex_requests>>

series == <<df, oldest_record, latest_record, requests, time_diff, trace>>

pure == <<args, result>>

vars == <<now, utc_offset, pc, startups, error, disk, gui, exchange, series,
          pure>>

NoFile == [exists |-> FALSE, data |-> <<>>]

NoExFile == [exists |-> FALSE, date |-> 0, rates |-> NoRates]

NoneRates == [none |-> TRUE, rates |-> NoRates]

NoDiff == 0 - 1

NoArgs == [kind |-> "none"]

NoResult == [kind |-> "none"]

\* one step of init_df: a download over [from, to], or an assignment, merge,
\* concat, sort or save; frame is the series the step leaves (for a
\* download, the series it finds)
Event(op, from, to, frame) ==
    [op |-> op, from |-> from, to |-> to, frame |-> frame]

\* SolWatcher.__init__
Constructed ==
    /\ df = <<>>
    /\ oldest_record = 0
    /\ latest_record = 0
    /\ exchange_rates = NoneRates
    /\ exchange_rates_last_update = 0
    /\ change_24h = Float(0)
    /\ change_7d = Float(0)
    /\ change_30d = Float(0)
    /\ change_1y = Float(0)
    /\ change_at = Float(0)
    /\ current_usd_price = 0
    /\ label_price = [amount |-> 0, fiat |-> ""]
    /\ requests = <<>>
    /\ ex_requests = 0
    /\ time_diff = NoDiff
    /\ trace = <<>>
    /\ call = [ran |-> FALSE, delta |-> 0, current_time |-> 0,
               fiat |-> "", converted |-> FALSE, outcome |-> "",
               old_time |-> 0, latest_time |-> 0,
               old_price |-> 0, new_price |-> 0, new_usd |-> 0,
               price_diff |-> Float(0), slot |-> ""]
    /\ win = 1
    /\ error = ""

Init ==
    /\ now \in {d * SecondsPerDay : d \in FirstRunDays}
    /\ utc_offset \in UtcOffsets
    /\ pc = "init_df"
    /\ startups = 1
    /\ df_file = NoFile
    /\ ex_file = NoExFile
    /\ Constructed
    /\ args = NoArgs
    /\ result = NoResult

(***************************************************************************)
(* init_df without dataframe.json: the three tiers                         *)
(***************************************************************************)
Raises(response) == response.n = 0

\* a save that writes nothing
SavedFileSkipped(file, ok, frame) == file

\* a save that is reached whether or not a download raised
SavedFileAlways(file, ok, frame) == [exists |-> TRUE, data |-> frame]

\* dataframe.json after init_df or refresh_dataframe: save_dataframe is the
\* last statement, reached only when no download raised
SavedFile(file, ok, frame) ==
    IF ok THEN [exists |-> TRUE, data |-> frame] ELSE file

\* t1, t2, t3: the three readings of the clock; r1, r2, r3: the API's answers
BootstrapTiers(t1, t2, t3) ==
    <<Request(sol_launch, t1 - 30 * SecondsPerDay),
      Request((t2 - SecondsPerDay) - 30 * SecondsPerDay, t2 - SecondsPerDay),
      Request(t3 - SecondsPerDay, t3)>>

BootstrapRun(t1, t2, t3, r1, r2, r3) ==
    LET tiers == BootstrapTiers(t1, t2, t3)
        all   == download_hist_data(tiers[1].from, tiers[1].to, r1)
        d30   == download_hist_data(tiers[2].from, tiers[2].to, r2)
        l30   == add_new_records(all.prices, all.timestamps,
                                 d30.prices, d30.timestamps)
        d24   == download_hist_data(tiers[3].from, tiers[3].to, r3)
        l24   == add_new_records(l30.prices, l30.timestamps,
                                 d24.prices, d24.timestamps)
        f_all == DataFrame(all.prices, all.timestamps)
        f_l30 == DataFrame(l30.prices, l30.timestamps)
        f_l24 == DataFrame(l24.prices, l24.timestamps)
        f_df  == SortByTime(f_l24)
        tier1 == <<Event("fetch", tiers[1].from, tiers[1].to, <<>>)>>
        tier2 == tier1 \o <<Event("assign", 0, 0, f_all),
                            Event("fetch", tiers[2].from, tiers[2].to, f_all)>>
        tier3 == tier2 \o <<Event("merge", 0, 0, f_l30),
                            Event("fetch", tiers[3].from, tiers[3].to, f_l30)>>
        done  == tier3 \o <<Event("merge", 0, 0, f_l24),
                            Event("sort", 0, 0, f_df),
                            Event("save", 0, 0, f_df)>>
    IN  IF Raises(r1)
        THEN [ok |-> FALSE, frame |-> <<>>, requests |-> SubSeq(tiers, 1, 1),
              clock |-> t1, trace |-> tier1]
        ELSE IF Raises(r2)
        THEN [ok |-> FALSE, frame |-> <<>>, requests |-> SubSeq(tiers, 1, 2),
              clock |-> t2, trace |-> tier2]
        ELSE IF Raises(r3)
        THEN [ok |-> FALSE, frame |-> <<>>, requests |-> tiers, clock |-> t3,
              trace |-> tier3]
        ELSE [ok |-> TRUE, frame |-> f_df,
              requests |-> tiers, clock |-> t3, trace |-> done]

Bootstrap ==
    /\ pc = "init_df"
    /\ ~df_file.exists
    /\ \E d \in BootTicks, r \in BootstrapResponses :
               LET t1 == now
                   t2 == t1 + d
                   t3 == t2 + d
                   run == BootstrapRun(t1, t2, t3, r[1], r[2], r[3])
               IN  /\ now' = run.clock
                   /\ requests' = run.requests
                   /\ trace' = run.trace
                   /\ df' = run.frame
                   /\ df_file' = SavedFile(df_file, run.ok, run.frame)
                   /\ pc' = IF run.ok THEN "init_exchanges" ELSE "crashed"
                   /\ error' = IF run.ok THEN "" ELSE "FetchError"
    /\ UNCHANGED <<utc_offset, startups, ex_file, gui, exchange,
                   oldest_record, latest_record, time_diff, pure>>

(***************************************************************************)
(* init_df with dataframe.json: load_dataframe, refresh_dataframe          *)
(***************************************************************************)
\* the minutes of the difference rounded up
TimediffMinutesUp(diff) == (diff + SecondsPerMinute - 1) \div SecondsPerMinute

\* int(time_diff.total_seconds()) // 60
TimediffMinutes(diff) == diff \div SecondsPerMinute

\* timediff_minutes > min_diff
NeedsRefresh(diff) == TimediffMinutes(diff) > MinDiff

\* current_time - timedelta(minutes=timediff_minutes)
RefreshStart(current_time, diff) ==
    current_time - TimediffMinutes(diff) * SecondsPerMinute

\* load_dataframe: read dataframe.json, then refresh_dataframe(5); dense
\* tells which answers the API may give to the request
Refresh(dense) ==
    /\ pc = "init_df"
    /\ df_file.exists
    /\ \E d \in Ticks, rates \in RateSnapshots :
         LET frame        == df_file.data
             latest       == MaxTime(frame)
             diff         == now - latest
             current_time == now + d
             start_time   == RefreshStart(current_time, diff)
         IN  /\ oldest_record' = MinTime(frame)
             /\ latest_record' = latest
             /\ time_diff' = diff
             \* get_time_extremes plots the series: plot_time_area finds
             \* exchange_rates None and calls get_exchange_data
             /\ exchange_rates' = [none |-> FALSE, rates |-> rates]
             /\ exchange_rates_last_update' = now
             /\ ex_requests' = ex_requests + 1
             /\ IF NeedsRefresh(diff)
                THEN \E r \in Answers(dense, current_time - start_time) :
                       LET new == download_hist_data(start_time, current_time, r)
                           new_df == DataFrame(new.prices, new.timestamps)
                           ok == ~Raises(r)
                           merged == IF ok THEN Concat(frame, new_df) ELSE frame
                           fetch == <<Event("fetch", start_time, current_time,
                                            frame)>>
                       IN  /\ now' = current_time
                           /\ requests' = <<Request(start_time, current_time)>>
                           /\ trace' = IF ok
                                       THEN fetch \o <<Event("concat", 0, 0, merged),
                                                       Event("save", 0, 0, merged)>>
                                       ELSE fetch
                           /\ df' = merged
                           /\ df_file' = SavedFile(df_file, ok, merged)
                           /\ pc' = IF ok THEN "init_exchanges" ELSE "crashed"
                           /\ error' = IF ok THEN "" ELSE "FetchError"
                ELSE /\ df' = frame
                     /\ pc' = "init_exchanges"
                     /\ UNCHANGED <<now, requests, trace, df_file, error>>
    /\ UNCHANGED <<utc_offset, startups, ex_file, gui, pure>>

LoadAndRefresh == Refresh(FALSE)

\* the same start, the API answering a refresh with more points than the
\* window has seconds
LoadAndRefreshDense == Refresh(TRUE)

(***************************************************************************)
(* init_exchanges                                                          *)
(***************************************************************************)
\* int(time.mktime(t.timetuple())): local wall-clock time to unix time
Mktime(t, offset) == t - offset

\* datetime(1970, 1, 1) + timedelta(seconds=ts): unix time to UTC wall clock
UtcDatetime(ts) == ts

\* delta > timedelta(hours=1)
Outdated(current_time, data_time) == current_time - data_time > SecondsPerHour

\* save_exchange_data
SavedExFile(last_update, rates, offset) ==
    [exists |-> TRUE, date |-> Mktime(last_update, offset), rates |-> rates]

InitExchanges ==
    /\ pc = "init_exchanges"
    /\ \E rates \in RateSnapshots :
         LET data_time == UtcDatetime(ex_file.date)
             fetch == ~ex_file.exists \/ Outdated(now, data_time)
         IN  IF fetch
             THEN /\ exchange_rates' = [none |-> FALSE, rates |-> rates]
                  /\ exchange_rates_last_update' = now
                  /\ ex_requests' = ex_requests + 1
                  /\ ex_file' = SavedExFile(now, rates, utc_offset)
             ELSE /\ exchange_rates' = [none |-> FALSE, rates |-> ex_file.rates]
                  /\ exchange_rates_last_update' = data_time
                  /\ UNCHANGED <<ex_requests, ex_file>>
    /\ pc' = "init_gui"
    /\ UNCHANGED <<now, utc_offset, startups, error, df_file, gui, series,
                   pure>>

(***************************************************************************)
(* init_gui: five calls of print_move_stats                                *)
(***************************************************************************)
\* df.filter(pl.col('time').is_between(start, end, closed="both"))
IsBetween(frame, start, end) ==
    SelectSeq(frame, LAMBDA row : start <= row.time /\ row.time <= end)

\* the extremes of the whole frame, cut_area ignored
get_time_extremes_uncut(frame, start, end) ==
    [empty  |-> frame = <<>>,
     oldest |-> IF frame = <<>> THEN 0 ELSE MinTime(frame),
     latest |-> IF frame = <<>> THEN 0 ELSE MaxTime(frame)]

\* get_time_area_extremes with cut_area: (oldest, latest) of the cut
get_time_area_extremes(frame, start, end) ==
    LET df_cut == IsBetween(frame, start, end)
    IN  [empty  |-> df_cut = <<>>,
         oldest |-> IF df_cut = <<>> THEN 0 ELSE MinTime(df_cut),
         latest |-> IF df_cut = <<>> THEN 0 ELSE MaxTime(df_cut)]

\* self.df.filter(pl.col('time') == t)['price_usd'][0]
\* the first row among lo..hi whose time is t, 0 if there is none
RECURSIVE FirstAt(_, _, _, _)
FirstAt(frame, t, lo, hi) ==
    IF lo = hi THEN (IF frame[lo].time = t THEN lo ELSE 0)
    ELSE LET mid == (lo + hi) \div 2
             l   == FirstAt(frame, t, lo, mid)
         IN  IF l # 0 THEN l ELSE FirstAt(frame, t, mid + 1, hi)

PriceAtTime(frame, t) == frame[FirstAt(frame, t, 1, Len(frame))].price_usd

\* fiat != 'USD' and fiat in self.exchange_rates.keys()
Converts(fiat, rates) == fiat # "USD" /\ fiat \in DOMAIN rates

Convert(price, fiat, rates) ==
    IF Converts(fiat, rates) THEN price * rates[fiat] ELSE price

\* a division that yields inf for a divisor of 0 instead of raising
PriceDiffInf(new_price, old_price) ==
    [raised |-> FALSE,
     value  |-> IF old_price = 0 THEN [num |-> 1, den |-> 0]
                ELSE Rat((new_price - old_price) * 100, old_price)]

\* (new_price / old_price - 1) * 100 on Python floats: a float division by
\* zero raises ZeroDivisionError
PriceDiff(new_price, old_price) ==
    IF old_price = 0
    THEN [raised |-> TRUE, value |-> Float(0)]
    ELSE LET quotient == Rat(new_price, old_price)
             minus1   == Rat(quotient.num - quotient.den, quotient.den)
         IN  [raised |-> FALSE, value |-> Rat(minus1.num * 100, minus1.den)]

\* the attribute the change of a call with end_time None is stored in
ChangeSlot(delta) ==
    IF delta = SecondsPerDay THEN "change_24h"
    ELSE IF delta = 7 * SecondsPerDay THEN "change_7d"
    ELSE IF delta = 30 * SecondsPerDay THEN "change_30d"
    ELSE IF delta = 365 * SecondsPerDay THEN "change_1y"
    ELSE IF delta > AllTimeDays * SecondsPerDay THEN "change_at"
    ELSE ""

print_move_stats(frame, rates, delta, current_time, fiat) ==
    LET back_time == current_time - delta
        ext       == get_time_area_extremes(frame, back_time, current_time)
        old_usd   == IF ext.empty THEN 0 ELSE PriceAtTime(frame, ext.oldest)
        new_usd   == IF ext.empty THEN 0 ELSE PriceAtTime(frame, ext.latest)
        old_price == Convert(old_usd, fiat, rates)
        new_price == Convert(new_usd, fiat, rates)
        diff      == PriceDiff(new_price, old_price)
        base      == [ran |-> TRUE, delta |-> delta, current_time |-> current_time,
                      fiat |-> fiat, converted |-> FALSE, outcome |-> "ValueError",
                      old_time |-> 0, latest_time |-> 0,
                      old_price |-> 0, new_price |-> 0, new_usd |-> 0,
                      price_diff |-> Float(0), slot |-> ""]
    IN  IF ext.empty
        THEN base    \* plot_time_area: np.min of an empty list
        ELSE [base EXCEPT
                !.converted = Converts(fiat, rates),
                !.outcome = IF diff.raised THEN "ZeroDivisionError" ELSE "ok",
                !.old_time = ext.oldest, !.latest_time = ext.latest,
                !.old_price = old_price, !.new_price = new_price,
                !.new_usd = new_usd,
                !.price_diff = diff.value,
                !.slot = IF diff.raised THEN "" ELSE ChangeSlot(delta)]

NoCallYet == [ran |-> FALSE, delta |-> 0, current_time |-> 0,
              fiat |-> "", converted |-> FALSE, outcome |-> "",
              old_time |-> 0, latest_time |-> 0,
              old_price |-> 0, new_price |-> 0, new_usd |-> 0,
              price_diff |-> Float(0), slot |-> ""]

\* the delta of the win-th call of init_gui, the clock reading t
WindowDelta(w, t) ==
    IF w = 1 THEN SecondsPerDay
    ELSE IF w = 2 THEN 7 * SecondsPerDay
    ELSE IF w = 3 THEN 30 * SecondsPerDay
    ELSE IF w = 4 THEN 365 * SecondsPerDay
    ELSE t - sol_launch

PrintMoveStats ==
    /\ pc = "init_gui"
    /\ LET delta == WindowDelta(win, now)
             r == print_move_stats(df, exchange_rates.rates, delta, now,
                                   DisplayFiat)
             seen == r.outcome # "ValueError"
         IN  /\ call' = r
             /\ current_usd_price' = IF seen THEN r.new_usd ELSE current_usd_price
             /\ label_price' = IF seen
                               THEN [amount |-> r.new_price, fiat |-> r.fiat]
                               ELSE label_price
             /\ change_24h' = IF r.slot = "change_24h" THEN r.price_diff ELSE change_24h
             /\ change_7d' = IF r.slot = "change_7d" THEN r.price_diff ELSE change_7d
             /\ change_30d' = IF r.slot = "change_30d" THEN r.price_diff ELSE change_30d
             /\ change_1y' = IF r.slot = "change_1y" THEN r.price_diff ELSE change_1y
             /\ change_at' = IF r.slot = "change_at" THEN r.price_diff ELSE change_at
             /\ error' = IF r.outcome = "ok" THEN "" ELSE r.outcome
             /\ pc' = IF r.outcome # "ok" THEN "crashed"
                      ELSE IF win = 5 THEN "shown" ELSE "init_gui"
             /\ win' = IF r.outcome = "ok" /\ win < 5 THEN win + 1 ELSE win
    /\ UNCHANGED <<now, utc_offset, startups, disk, exchange, series, pure>>

(***************************************************************************)
(* The application is closed (or has crashed) and is started again         *)
(***************************************************************************)
Restart ==
    /\ pc \in {"shown", "crashed"}
    /\ startups < MaxStartups
    /\ \E e \in Elapsed : now' = now + e
    /\ startups' = startups + 1
    /\ pc' = "init_df"
    /\ df' = <<>>
    /\ oldest_record' = 0
    /\ latest_record' = 0
    /\ exchange_rates' = NoneRates
    /\ exchange_rates_last_update' = 0
    /\ change_24h' = Float(0)
    /\ change_7d' = Float(0)
    /\ change_30d' = Float(0)
    /\ change_1y' = Float(0)
    /\ change_at' = Float(0)
    /\ current_usd_price' = 0
    /\ label_price' = [amount |-> 0, fiat |-> ""]
    /\ requests' = <<>>
    /\ ex_requests' = 0
    /\ time_diff' = NoDiff
    /\ trace' = <<>>
    /\ call' = NoCallYet
    /\ win' = 1
    /\ error' = ""
    /\ UNCHANGED <<utc_offset, disk, pure>>

Next ==
    \/ Bootstrap
    \/ LoadAndRefresh
    \/ InitExchanges
    \/ PrintMoveStats
    \/ Restart

Spec == Init /\ [][Next]_vars

NextDense ==
    \/ Next
    \/ LoadAndRefreshDense

SpecDense == Init /\ [][NextDense]_vars

(***************************************************************************)
(* The same starts on hosts of other time zones                            *)
(***************************************************************************)
InitZones ==
    /\ now \in {d * SecondsPerDay : d \in FirstRunDays}
    /\ utc_offset \in ZoneOffsets
    /\ pc = "init_df"
    /\ startups = 1
    /\ df_file = NoFile
    /\ ex_file = NoExFile
    /\ Constructed
    /\ args = NoArgs
    /\ result = NoResult

SpecZones == InitZones /\ [][Next]_vars

(***************************************************************************)
(* add_new_records applied on its own to a series and two batches          *)
(***************************************************************************)
\* the program stands still while a function is applied on its own
Idle ==
    /\ now = sol_launch
    /\ utc_offset = 0
    /\ pc = "apply"
    /\ startups = 1
    /\ df_file = NoFile
    /\ ex_file = NoExFile
    /\ Constructed
    /\ result = NoResult

Rows(max) ==
    UNION { [1..k -> [price_usd : MergePrices, time : MergeTimes]] : k \in 0..max }

PricesOf(frame) == [i \in 1..Len(frame) |-> frame[i].price_usd]

TimesOf(frame) == [i \in 1..Len(frame) |-> frame[i].time]

\* add_new_records on the two columns of a series and of a batch
Merged(frame, batch) ==
    LET lists == add_new_records(PricesOf(frame), TimesOf(frame),
                                 PricesOf(batch), TimesOf(batch))
    IN  DataFrame(lists.prices, lists.timestamps)

InitMerge ==
    /\ Idle
    /\ args \in [kind : {"merge"}, S : Rows(MaxSeries),
                  B1 : Rows(MaxBatch), B2 : Rows(MaxBatch)]

\* the batch B1 merged into S, and merged again into what that gave
MergeAgain ==
    /\ args.kind = "merge"
    /\ result = NoResult
    /\ LET once == Merged(args.S, args.B1)
       IN  result' = [kind |-> "again", once |-> once,
                      twice |-> Merged(once, args.B1)]
    /\ UNCHANGED <<now, utc_offset, pc, startups, error, disk, gui, exchange,
                   series, args>>

\* B1 then B2 merged into S, and B2 then B1, each followed by the sort
MergeBothOrders ==
    /\ args.kind = "merge"
    /\ result = NoResult
    /\ result' = [kind |-> "orders",
                  ab |-> SortByTime(Merged(Merged(args.S, args.B1), args.B2)),
                  ba |-> SortByTime(Merged(Merged(args.S, args.B2), args.B1))]
    /\ UNCHANGED <<now, utc_offset, pc, startups, error, disk, gui, exchange,
                   series, args>>

NextMerge ==
    \/ MergeAgain
    \/ MergeBothOrders

SpecMerge == InitMerge /\ [][NextMerge]_vars

(***************************************************************************)
(* download_hist_data applied on its own to a window and an answer         *)
(***************************************************************************)
InitStamps ==
    /\ Idle
    /\ args \in [kind : {"stamps"}, time_s : StampStarts, span : StampSpans,
                  n : 1..MaxStampPoints]

Download ==
    /\ args.kind = "stamps"
    /\ result = NoResult
    /\ LET lists == download_hist_data(args.time_s, args.time_s + args.span,
                                       [n |-> args.n, price |-> 1])
       IN  result' = [kind |-> "stamps", prices |-> lists.prices,
                      timestamps |-> lists.timestamps]
    /\ UNCHANGED <<now, utc_offset, pc, startups, error, disk, gui, exchange,
                   series, args>>

NextStamps == Download

SpecStamps == InitStamps /\ [][NextStamps]_vars

(***************************************************************************)
(* Properties                                                              *)
(***************************************************************************)
NoDuplicates(frame) == Cardinality({frame[i].time : i \in 1..Len(frame)}) = Len(frame)

Sorted(frame) == \A i \in 1..(Len(frame) - 1) : frame[i].time <= frame[i + 1].time

\* this start loaded dataframe.json and refresh_dataframe has decided
Refreshed == time_diff # NoDiff

\* refresh_dataframe issued a fetch
Fetched == Refreshed /\ requests # <<>>

\* C1: no two samples of the series share a timestamp, in memory and in
\* dataframe.json, after bootstrap and after any number of refreshes, for
\* every number of points the API returns.
C1_NoDuplicateTimestamps == NoDuplicates(df) /\ NoDuplicates(df_file.data)

\* C2: after bootstrap and after every refresh that appends fetched samples,
\* the series in memory and the series in dataframe.json are in
\* non-decreasing order of timestamp.
C2_SortedSeries == Sorted(df) /\ Sorted(df_file.data)

\* a refresh has appended the samples it fetched to a loaded series
C2_Witness ==
    /\ pc = "init_exchanges"
    /\ Fetched
    /\ Len(df) > 3
    /\ df_file.data = df
    /\ df[Len(df)].time = now

\* C3: the window a refresh requests never starts before the latest sample
\* of the loaded series.
C3_NoRefetch == Fetched => requests[1].from >= latest_record

\* a refresh requested a window that starts at the latest sample
C3_Witness == Fetched /\ requests[1].from = latest_record /\ pc = "init_exchanges"

\* C4: the window a refresh requests is exactly [T, now], T the latest
\* sample of the loaded series.
C4_ExactWindow ==
    Fetched => requests[1].from = latest_record /\ requests[1].to = now

\* C5: a refresh fetches if and only if now - latest sample is more than the
\* 5 minutes of the threshold.
C5_FetchIffStale ==
    Refreshed => (requests # <<>> <=> time_diff > MinDiff * SecondsPerMinute)

\* C6: a start that ends with a failed price-history fetch, in any tier of
\* the bootstrap or in the refresh, ends with the error and leaves
\* dataframe.json as it was.
C6_FailedFetchKeepsFile ==
    [][error' = "FetchError" /\ error # "FetchError"
          => pc' = "crashed" /\ df_file' = df_file]_vars

\* the third tier of a bootstrap failed and no file was written
C6_Witness ==
    /\ pc = "crashed"
    /\ error = "FetchError"
    /\ Len(requests) = 3
    /\ ~df_file.exists

\* the rows of the frame between lo and hi, both included
InWindow(frame, lo, hi) ==
    {i \in 1..Len(frame) : lo <= frame[i].time /\ frame[i].time <= hi}

Earliest(frame, S) == {i \in S : \A j \in S : frame[i].time <= frame[j].time}

Latest(frame, S) == {i \in S : \A j \in S : frame[j].time <= frame[i].time}

\* the last call of print_move_stats got past the cut of the series
Computed == call.ran /\ call.outcome # "ValueError"

\* C7: a call whose window starts before the oldest sample of the series
\* fails and stores no change.
C7_InsufficientHistoryFails ==
    call.ran /\ MinTime(df) > call.current_time - call.delta
        => call.outcome # "ok" /\ call.slot = ""

\* C8: a call with a non-empty cut takes the sample of the least timestamp
\* of the cut as start, the sample of the greatest as end, and its change is
\* (end price / start price - 1) * 100.
C8_MinMaxChange ==
    call.ran /\ call.outcome = "ok" =>
        LET S == InWindow(df, call.current_time - call.delta, call.current_time)
        IN  \E a \in Earliest(df, S), b \in Latest(df, S) :
              /\ call.old_time = df[a].time
              /\ call.latest_time = df[b].time
              /\ df[a].price_usd # 0
              /\ call.price_diff =
                    Rat((df[b].price_usd - df[a].price_usd) * 100, df[a].price_usd)

\* the 24-hour change of a series whose price went from 2 to 3
C8_Witness ==
    /\ call.ran
    /\ call.outcome = "ok"
    /\ call.delta = SecondsPerDay
    /\ call.old_time > MinTime(df)
    /\ change_24h = Float(50)

\* C9: a call whose start sample has price 0 ends with an error, and leaves
\* every stored change as it was.
C9_ZeroPriceFails ==
    [][ /\ pc = "init_gui"
        /\ LET S == InWindow(df, now - WindowDelta(win, now), now)
           IN  \E a \in Earliest(df, S) : df[a].price_usd = 0
        => /\ pc' = "crashed"
           /\ error' = "ZeroDivisionError"
           /\ changes' = changes ]_vars

\* the 30-day window failed on a price of 0 after two changes were stored
C9_Witness ==
    /\ pc = "crashed"
    /\ error = "ZeroDivisionError"
    /\ win = 3
    /\ change_24h = Float(100)
    /\ change_30d = Float(0)

\* C10: when the display currency is not among the rates, the call goes on
\* with the USD prices and marks its result.  The one mark a result carries
\* is the currency written after the amount in label_price.
C10_FallbackFlagged ==
    Computed /\ DisplayFiat \notin DOMAIN exchange_rates.rates
        => /\ label_price.amount = call.new_usd
           /\ label_price.fiat # DisplayFiat

\* C11: merging a batch (repeated timestamps included) into the result of
\* merging the same batch into a series gives the prices and timestamps of
\* merging it once.
C11_MergeIdempotent ==
    result.kind = "again" => result.twice = result.once

\* a batch of two rows of one timestamp and two prices added one row to an
\* empty series
C11_Witness ==
    /\ result.kind = "again"
    /\ args.S = <<>>
    /\ Len(args.B1) = 2
    /\ args.B1[1].time = args.B1[2].time
    /\ args.B1[1].price_usd # args.B1[2].price_usd
    /\ result.once = <<args.B1[1]>>

\* the two batches share no timestamp
NoSharedTime(b1, b2) ==
    \A i \in 1..Len(b1), j \in 1..Len(b2) : b1[i].time # b2[j].time

\* C12: for batches B1 and B2 that share no timestamp, merging B1 then B2
\* into a series and merging B2 then B1 give the same series after the sort.
C12_MergeCommutes ==
    result.kind = "orders" /\ NoSharedTime(args.B1, args.B2)
        => result.ab = result.ba

\* a batch that adds a row before the row of the series, and a batch of two
\* rows of the timestamp the series has already
C12_Witness ==
    /\ result.kind = "orders"
    /\ Len(args.S) = 1
    /\ Len(args.B1) = 1
    /\ Len(args.B2) = 2
    /\ NoSharedTime(args.B1, args.B2)
    /\ Len(result.ab) = 2
    /\ result.ab[1] = args.B1[1]
    /\ result.ab[2] = args.S[1]

\* the local time exchanges.json was stamped with when it was saved
LastUpdated == ex_file.date + utc_offset

\* C13: on a host of any UTC offset, init_exchanges with an exchanges.json
\* stamped t fetches and saves new rates if and only if now - t is more than
\* 1 hour, and keeps the saved rates otherwise.
C13_StaleIffOverAnHour ==
    [][pc = "init_exchanges" /\ ex_file.exists
          => IF now - LastUpdated > SecondsPerHour
             THEN /\ ex_requests' = ex_requests + 1
                  /\ ex_file'.date + utc_offset = now
             ELSE /\ ex_requests' = ex_requests
                  /\ ex_file' = ex_file
                  /\ exchange_rates'.rates = ex_file.rates]_vars

\* how many rows of the frame are the row
Count(frame, row) == Cardinality({i \in 1..Len(frame) : frame[i] = row})

\* every (timestamp, price) row of before is a row of after, as often
Kept(before, after) ==
    \A i \in 1..Len(before) :
        Count(after, before[i]) >= Count(before, before[i])

\* C14: every (timestamp, price) sample the series has before a merge step
\* of the bootstrap or before a refresh is in it afterwards, with its price:
\* in dataframe.json, in the series a start loads and refreshes, and from
\* each step of init_df to the next.
C14_NeverTruncated ==
    [][ /\ Kept(df_file.data, df_file'.data)
        /\ pc = "init_df" /\ df_file.exists => Kept(df_file.data, df')
        /\ \A i \in 1..(Len(trace') - 1) :
              Kept(trace'[i].frame, trace'[i + 1].frame) ]_vars

\* a bootstrap whose second answer had a point, of price 2, at the stamp of
\* the point of the first answer, of price 1: the series kept the price 1
C14_Witness ==
    /\ pc = "init_exchanges"
    /\ Len(trace) = 8
    /\ Len(trace[3].frame) = 1
    /\ Len(trace[4].frame) = DailyPoints
    /\ trace[4].frame[1] = [price_usd |-> 1, time |-> now - 30 * SecondsPerDay]
    /\ df[1] = trace[4].frame[1]
    /\ df_file.data = df

\* init_df of this start has returned without an exception
InitDfReturned ==
    \/ pc \in {"init_exchanges", "init_gui", "shown"}
    \/ pc = "crashed" /\ error # "FetchError"

\* C15: whenever init_df has returned normally, after a bootstrap, after a
\* refresh that fetched or after one that did not, dataframe.json holds the
\* series that is in memory.
C15_PersistedEqualsMemory ==
    InitDfReturned => df_file.exists /\ df_file.data = df

\* a start that loaded the series and found it fresh enough
C15_Witness ==
    /\ pc = "init_exchanges"
    /\ Refreshed
    /\ requests = <<>>
    /\ trace = <<>>
    /\ df # <<>>
    /\ df_file.data = df

\* init_df of this start found no dataframe.json and has returned normally
Bootstrapped == InitDfReturned /\ ~Refreshed

Ops(events) == [i \in 1..Len(events) |-> events[i].op]

\* C16: a bootstrap fetches exactly three times, [sol_launch, now - 30 days],
\* then [now - 30 days, now - 1 day], then [now - 1 day, now]; the points of
\* each fetch are in the accumulating series before the next fetch, and the
\* series is sorted and saved once, after the third merge.
C16_ThreeTiers ==
    Bootstrapped =>
        /\ Ops(trace) \in { <<"fetch", first, "fetch", "merge", "fetch", "merge",
                                "sort", "save">> : first \in {"assign", "merge"} }
        /\ Request(trace[1].from, trace[1].to)
              = Request(sol_launch, now - 30 * SecondsPerDay)
        /\ Request(trace[3].from, trace[3].to)
              = Request(now - 30 * SecondsPerDay, now - SecondsPerDay)
        /\ Request(trace[5].from, trace[5].to)
              = Request(now - SecondsPerDay, now)
        /\ requests = <<Request(trace[1].from, trace[1].to),
                        Request(trace[3].from, trace[3].to),
                        Request(trace[5].from, trace[5].to)>>
        /\ trace[3].frame = trace[2].frame
        /\ trace[5].frame = trace[4].frame
        /\ df_file.data = trace[8].frame

\* C17: within a start the exchange-rate API is requested only when there is
\* no exchanges.json or the one there is was stamped more than 1 hour ago,
\* on the path that loads dataframe.json as on every other.
C17_RequestOnlyWhenStale ==
    [][ex_requests' > ex_requests
          => ~ex_file.exists \/ now - LastUpdated > SecondsPerHour]_vars

\* C18: when init_df returns normally, after a bootstrap or after loading
\* and refreshing, the latest sample of the series is no more than the 5
\* minutes of the threshold old.
C18_FreshAfterInit ==
    pc = "init_exchanges" =>
        now - MaxTime(df) <= MinDiff * SecondsPerMinute

\* C19: the stamps download_hist_data gives the n >= 1 points of an answer
\* over [start, end] are non-decreasing, lie within [start, end], and the
\* last of them is end.
C19_StampsReachEnd ==
    result.kind = "stamps" =>
        LET stamps == result.timestamps
            end    == args.time_s + args.span
        IN  /\ Len(stamps) = args.n
            /\ \A i \in 1..(args.n - 1) : stamps[i] <= stamps[i + 1]
            /\ \A i \in 1..args.n : args.time_s <= stamps[i] /\ stamps[i] <= end
            /\ stamps[args.n] = end

====
